---------------------------- MODULE Spec2Model ----------------------------
(***************************************************************************)
(* A model of the Chirpier JavaScript SDK client: the process-wide         *)
(* singleton (initialize / monitor / stop), the event queue, the flush     *)
(* timer, the two AsyncLock instances and the batch send with its          *)
(* requeue-or-drop handling of failed sends.                               *)
(*                                                                         *)
(* The client runs on a single-threaded event loop.  Every action below    *)
(* is one run-to-completion segment of the code: the synchronous part of   *)
(* a call, or the continuation after one `await`.  Timer callbacks and     *)
(* HTTP completions are macrotasks and run only when no continuation of    *)
(* the client is pending; calls of the host may come at any point.         *)
(***************************************************************************)
EXTENDS Integers, Sequences, FiniteSets, TLC

\* ------------------------------------------------------------------ bounds
\* Number of client objects the model constructs.
MaxInstances == 2
\* Number of valid events the host submits to an existing client.
MaxCalls == 4
\* Number of sends the transport fails.
MaxFailures == 2
\* Number of stop() calls that find a client, and the number of valid
\* events and of failed sends in the runs that hold more than one stop().
MaxStops == 2
MaxCallsRestop == 2
MaxFailuresRestop == 1
\* Scaled-down program constants (constants.ts): the relations between
\* them are those of the source (retries >= 1, batch size <= queue cap).
DEFAULT_RETRIES == 1
DEFAULT_BATCH_SIZE == 3
MAX_QUEUE_SIZE == 3

\* ------------------------------------------------------------ error texts
ERR_NOT_INITIALIZED == "Chirpier SDK is not initialized. Please call initialize() first."
ERR_INVALID_JWT == "Invalid API key: Not a valid JWT"
ERR_KEY_REQUIRED == "API key is required and must be a string"
ERR_INVALID_EVENT == "Invalid event format. Must include group_id, stream_name, and numeric value."
ERR_QUEUE_FULL == "Event queue is full."
SEND_ERROR == "Network Error"
TYPE_ERROR == "TypeError"

Last(s) == s[Len(s)]

\* ------------------------------------------------------------- JS values
\* A JavaScript value as far as the validators look at it: its typeof and,
\* for a string, its characters.
Undefined == [typ |-> "undefined", chars |-> <<>>]
Num == [typ |-> "number", chars |-> <<>>]
Str(cs) == [typ |-> "string", chars |-> cs]

HexDigit ==
    {"0", "1", "2", "3", "4", "5", "6", "7", "8", "9",
     "a", "b", "c", "d", "e", "f", "A", "B", "C", "D", "E", "F"}
WhiteSpace == {" ", "\t", "\n"}

\* /^[0-9a-fA-F]{8}-[0-9a-fA-F]{4}-[0-9a-fA-F]{4}-[0-9a-fA-F]{4}-[0-9a-fA-F]{12}$/.test(s)
UuidPattern(cs) ==
    /\ Len(cs) = 36
    /\ \A i \in 1..36 :
          IF i \in {9, 14, 19, 24} THEN cs[i] = "-" ELSE cs[i] \in HexDigit

\* s.trim().length > 0
TrimNonEmpty(cs) == \E i \in 1..Len(cs) : cs[i] \notin WhiteSpace

\* More JavaScript values: NaN and Infinity are numbers, typeof null is
\* "object".
NaN == [typ |-> "number", chars |-> <<"N", "a", "N">>]
Infinity == [typ |-> "number", chars |-> <<"I", "n", "f">>]
Null == [typ |-> "object", chars |-> <<>>]

\* ----------------------------------------------------------------- events
\* The events the host submits.  The queue holds references to them.  One
\* valid event comes without an event_id, the other with one.
GROUP_UUID == <<"b", "f", "d", "9", "2", "9", "9", "d", "-", "8", "1", "7", "a", "-", "4", "5", "2", "f", "-", "b", "c", "5", "3", "-", "6", "e", "1", "5", "4", "f", "2", "2", "8", "1", "f", "c">>
EventIds == {"sales", "visits", "noStream", "badGroup"}
ValidEventIds == {"sales", "visits"}
EventDef(e) ==
    CASE e = "sales" ->
           [group_id |-> Str(GROUP_UUID), stream_name |-> Str(<<"S", "a", "l", "e", "s">>), value |-> Num,
            event_id |-> Undefined]
      [] e = "visits" ->
           [group_id |-> Str(GROUP_UUID), stream_name |-> Str(<<" ", "v", " ">>), value |-> Num,
            event_id |-> Str(GROUP_UUID)]
      [] e = "noStream" ->
           [group_id |-> Str(GROUP_UUID), stream_name |-> Undefined, value |-> Undefined,
            event_id |-> Undefined]
      [] e = "badGroup" ->
           [group_id |-> Str(<<"i", "n", "v", "a", "l", "i", "d", "-", "u", "u", "i", "d">>), stream_name |-> Str(<<>>), value |-> Num,
            event_id |-> Undefined]

\* The validation with stream_name tested for length without trim().
isValidEvent_NoTrim(event) ==
    /\ event.group_id.typ = "string"
    /\ UuidPattern(event.group_id.chars)
    /\ TrimNonEmpty(event.group_id.chars)
    /\ event.stream_name.typ = "string"
    /\ Len(event.stream_name.chars) > 0
    /\ event.value.typ = "number"

\* The validation with the typeof checks only.
isValidEvent_TypesOnly(event) ==
    /\ event.group_id.typ = "string"
    /\ event.stream_name.typ = "string"
    /\ event.value.typ = "number"

isValidEvent(event) ==
    /\ event.group_id.typ = "string"
    /\ UuidPattern(event.group_id.chars)
    /\ TrimNonEmpty(event.group_id.chars)
    /\ event.stream_name.typ = "string"
    /\ TrimNonEmpty(event.stream_name.chars)
    /\ event.value.typ = "number"

\* The values a caller may put in the three fields of an event.
GroupIdValues ==
    {Str(GROUP_UUID),
     Str([GROUP_UUID EXCEPT ![1] = "B", ![36] = "F"]),
     Str([GROUP_UUID EXCEPT ![1] = "g"]),
     Str([GROUP_UUID EXCEPT ![9] = "0"]),
     Str([GROUP_UUID EXCEPT ![10] = "-"]),
     Str(Append(GROUP_UUID, "\n")),
     Str(<<" ">> \o GROUP_UUID),
     Str(SubSeq(GROUP_UUID, 1, 35)),
     Str(<<"i", "n", "v", "a", "l", "i", "d", "-", "u", "u", "i", "d">>),
     Str(<<>>), Num, Undefined, Null}
StreamNameValues ==
    {Str(<<"S", "a", "l", "e", "s">>), Str(<<" ", "v", " ">>), Str(<<>>),
     Str(<<" ", "\t", "\n">>), Num, Undefined, Null}
ValueValues == {Num, NaN, Infinity, Str(<<"1">>), Undefined, Null}
Events ==
    [group_id : GroupIdValues, stream_name : StreamNameValues, value : ValueValues]

\* ------------------------------------------------------------ credentials
\* A credential as initialize() sees it: its typeof and, for a string, the
\* segments token.split(".") yields.
JWT_HEADER == "eyJhbGciOiJIUzI1NiIsInR5cCI6IkpXVCJ9"
JWT_PAYLOAD == "eyJzdWIiOiIxMjM0NTY3ODkwIiwibmFtZSI6IkpvaG4gRG9lIiwiaWF0IjoxNTE2MjM5MDIyfQ"
JWT_PAYLOAD_B == "eyJzdWIiOiIyIn0"
JWT_SIGNATURE == "SflKxwRJSMeKKF2QT4fwpMeJf36POk6yJV_adQssw5c"

KEY_JWT == [typ |-> "string", segs |-> <<JWT_HEADER, JWT_PAYLOAD, JWT_SIGNATURE>>]
KEY_JWT_B == [typ |-> "string", segs |-> <<JWT_HEADER, JWT_PAYLOAD_B, JWT_SIGNATURE>>]
KEY_API_KEY == [typ |-> "string", segs |-> <<"api_key">>]
KEY_NUMBER_PAYLOAD == [typ |-> "string", segs |-> <<JWT_HEADER, "MQ", JWT_SIGNATURE>>]
KEY_UNDEFINED == [typ |-> "undefined", segs |-> <<>>]
NoKey == KEY_UNDEFINED

Keys == {KEY_JWT, KEY_JWT_B, KEY_API_KEY, KEY_NUMBER_PAYLOAD, KEY_UNDEFINED}

\* typeof JSON.parse(base64UrlDecode(segment)), "throws" when the segment
\* does not decode to JSON text.
DecodedTypeof(seg) ==
    CASE seg \in {JWT_HEADER, JWT_PAYLOAD, JWT_PAYLOAD_B} -> "object"
      [] seg = "MQ" -> "number"
      [] OTHER -> "throws"

\* isValidJWT without the decoding of its segments.
isValidJWT_CountOnly(token) ==
    IF token.typ # "string" THEN TYPE_ERROR
    ELSE IF Len(token.segs) # 3 THEN "false"
    ELSE "true"

\* The result of isValidJWT(token): "true", "false", or "TypeError" when
\* token.split is not callable (token is not a string).
isValidJWT(token) ==
    IF token.typ # "string" THEN TYPE_ERROR
    ELSE IF Len(token.segs) # 3 THEN "false"
    ELSE IF DecodedTypeof(token.segs[1]) = "throws" THEN "false"
    ELSE IF DecodedTypeof(token.segs[2]) = "throws" THEN "false"
    ELSE IF DecodedTypeof(token.segs[1]) = "object"
            /\ DecodedTypeof(token.segs[2]) = "object" THEN "true"
    ELSE "false"

\* JavaScript truthiness of options.key.
Truthy(key) == key.typ = "string" /\ key.segs # <<"">>

\* ------------------------------------------------------------------ state
Insts == 1..MaxInstances
NULL == 0

VARIABLES
    instance,        \* Chirpier.instance: NULL or the singleton client
    created,         \* number of clients constructed so far
    options,         \* per client: the options object its constructor got
    apiKey,          \* per client: this.apiKey
    batchSize,       \* per client: this.batchSize
    retries,         \* per client: this.retries
    eventQueue,      \* per client: this.eventQueue, a sequence of QueuedEvent
    flushTimeoutId,  \* per client: "null", or the state of the timer it names
    timers,          \* per client: timers set and neither fired nor cleared
    queueLock,       \* per client: key "queue" of this.queueLock
    flushLock,       \* per client: key "flush" of this.flushLock and its holder
    resumeMonitor,   \* per client: monitor() calls past their await of the push
    stopResume,      \* stop() calls past their await of flushQueue()
    microtasks,      \* the event loop's microtask queue, in order
    requests,        \* every POST issued so far, in order, with its outcome
    clock,           \* number of valid events submitted to a client
    stops,           \* per client, the number of stop() calls that found it
    failures,        \* number of failed sends
    lastCall         \* the latest outcome the host or the log observed

vars ==
    <<instance, created, options, apiKey, batchSize, retries, eventQueue,
      flushTimeoutId, timers, queueLock, flushLock, resumeMonitor, stopResume,
      microtasks, requests, clock, stops, failures, lastCall>>

\* Everything but the record of the latest call.
stateVars ==
    <<instance, created, options, apiKey, batchSize, retries, eventQueue,
      flushTimeoutId, timers, queueLock, flushLock, resumeMonitor, stopResume,
      microtasks, requests, clock, stops, failures>>

clientVars ==
    <<options, apiKey, batchSize, retries, eventQueue, flushTimeoutId,
      timers, queueLock, flushLock, resumeMonitor>>

NoOptions == [key |-> NoKey, batchSize |-> 0]
\* A promise reaction waiting in the microtask queue: the continuation of
\* client i it runs. Reactions run in the order they were queued.
Microtask(task, i) == [task |-> task, client |-> i]
NextMicrotask(task, i) ==
    microtasks # <<>> /\ Head(microtasks) = Microtask(task, i)
FreeQueueLock == [held |-> "free", pending |-> <<>>]
\* A call of flushQueue(): who made it and, for the record of a call made
\* by stop(), the queue it found and whether it found the "flush" key taken.
FlushCall(origin, queue, waited) ==
    IF origin = "stop"
    THEN [origin |-> origin, atCall |-> queue, waited |-> waited]
    ELSE [origin |-> origin, atCall |-> <<>>, waited |-> FALSE]
FreeFlushLock ==
    [pc |-> "free", call |-> FlushCall("none", <<>>, FALSE),
     eventsToSend |-> <<>>, pending |-> <<>>]
\* What a step shows the host: the call made (or "deferred" for a pending
\* monitor() finishing, "none" for any other step), the credential or the
\* event it was made with, the error the call threw
\* synchronously, and the error the promise of Chirpier.monitor() rejected
\* with (the module's monitor() catches and logs that rejection).
Outcome(op, arg, thrown, rejected) ==
    [op |-> op, arg |-> arg, thrown |-> thrown, rejected |-> rejected]
NoArg == "-"
NoCall == Outcome("none", NoArg, "", "")
HostOps == {"initialize", "monitor", "stop"}

Init ==
    /\ instance = NULL
    /\ created = 0
    /\ options = [i \in Insts |-> NoOptions]
    /\ apiKey = [i \in Insts |-> NoKey]
    /\ batchSize = [i \in Insts |-> 0]
    /\ retries = [i \in Insts |-> 0]
    /\ eventQueue = [i \in Insts |-> <<>>]
    /\ flushTimeoutId = [i \in Insts |-> "null"]
    /\ timers = [i \in Insts |-> 0]
    /\ queueLock = [i \in Insts |-> FreeQueueLock]
    /\ flushLock = [i \in Insts |-> FreeFlushLock]
    /\ resumeMonitor = [i \in Insts |-> 0]
    /\ stopResume = 0
    /\ microtasks = <<>>
    /\ requests = <<>>
    /\ clock = 0
    /\ stops = [i \in Insts |-> 0]
    /\ failures = 0
    /\ lastCall = NoCall

\* The number of stop() calls that found a client.
RECURSIVE SumTo(_, _)
SumTo(f, n) == IF n = 0 THEN 0 ELSE f[n] + SumTo(f, n - 1)
StopCount == SumTo(stops, MaxInstances)

\* A continuation of the client is queued as a microtask: timer callbacks
\* and HTTP completions wait until all of them have run.
MicrotaskPending ==
    \/ stopResume > 0
    \/ \E i \in Insts :
          \/ queueLock[i].held # "free"
          \/ resumeMonitor[i] > 0
          \/ flushLock[i].pc \in {"swapped", "requeued", "threw", "done"}

\* The host calls the SDK from a task of its own, or right after another
\* call of the same task.
HostMayCall == ~MicrotaskPending \/ lastCall.op \in HostOps

\* The keys of this.queueLock: "queue" is held (queueLock[i].held) from a
\* push until its release runs; "eventQueue" is held from a swap-out or a
\* splice-back until its release runs. The keys differ, so neither waits
\* for the other.
QueueKeyHeld(i) == queueLock[i].held # "free"
EventQueueKeyHeld(i) ==
    \E k \in 1..Len(microtasks) : microtasks[k] = Microtask("eventQueueDone", i)

\* ------------------------------------------------------- pure code pieces
QueuedEvent(event, timestamp) ==
    [event |-> event, timestamp |-> timestamp, retryCount |-> 0]

\* The push body with the capacity check off by one.
PushBody_OffByOne(queue, event, timestamp) ==
    IF Len(queue) > MAX_QUEUE_SIZE
    THEN [queue |-> queue, held |-> "full"]
    ELSE [queue |-> Append(queue, QueuedEvent(event, timestamp)), held |-> "pushed"]

\* The body monitor() runs under queueLock.acquire("queue"): the queue
\* after it, and whether it pushed or threw "Event queue is full.".
PushBody(queue, event, timestamp) ==
    IF Len(queue) >= MAX_QUEUE_SIZE
    THEN [queue |-> queue, held |-> "full"]
    ELSE [queue |-> Append(queue, QueuedEvent(event, timestamp)), held |-> "pushed"]

\* A swap-out that takes the first event only.
SwapOut_FirstOnly(queue) ==
    IF Len(queue) > 0
    THEN [eventsToSend |-> <<Head(queue)>>, queue |-> Tail(queue)]
    ELSE [eventsToSend |-> <<>>, queue |-> queue]

\* The swap-out without `this.eventQueue = []`.
SwapOut_KeepQueue(queue) == [eventsToSend |-> queue, queue |-> queue]

\* The body flushQueue() runs under queueLock.acquire("eventQueue").
SwapOut(queue) ==
    IF Len(queue) > 0
    THEN [eventsToSend |-> queue, queue |-> <<>>]
    ELSE [eventsToSend |-> <<>>, queue |-> queue]

\* The catch block's loop without `queuedEvent.retryCount++`.
RECURSIVE RetryableEvents_NoIncrement(_, _)
RetryableEvents_NoIncrement(eventsToSend, maxRetries) ==
    IF eventsToSend = <<>> THEN <<>>
    ELSE LET queuedEvent == Head(eventsToSend)
             rest == RetryableEvents_NoIncrement(Tail(eventsToSend), maxRetries)
         IN  IF queuedEvent.retryCount >= maxRetries
             THEN rest
             ELSE <<queuedEvent>> \o rest

\* The catch block's loop with `>` in place of `>=`.
RECURSIVE RetryableEvents_OffByOne(_, _)
RetryableEvents_OffByOne(eventsToSend, maxRetries) ==
    IF eventsToSend = <<>> THEN <<>>
    ELSE LET queuedEvent == Head(eventsToSend)
             rest == RetryableEvents_OffByOne(Tail(eventsToSend), maxRetries)
         IN  IF queuedEvent.retryCount > maxRetries
             THEN rest
             ELSE <<[queuedEvent EXCEPT !.retryCount = @ + 1]>> \o rest

\* The catch block's loop: drop the events that used up their retries,
\* increment the counter of the others.
RECURSIVE RetryableEvents(_, _)
RetryableEvents(eventsToSend, maxRetries) ==
    IF eventsToSend = <<>> THEN <<>>
    ELSE LET queuedEvent == Head(eventsToSend)
             rest == RetryableEvents(Tail(eventsToSend), maxRetries)
         IN  IF queuedEvent.retryCount >= maxRetries
             THEN rest
             ELSE <<[queuedEvent EXCEPT !.retryCount = @ + 1]>> \o rest

\* The splice-back with the retried events behind the live queue.
Requeue_Behind(retryableEvents, queue) == queue \o retryableEvents

\* this.eventQueue = [...retryableEvents, ...this.eventQueue]
Requeue(retryableEvents, queue) == retryableEvents \o queue

\* A catch block that rethrows the error of the POST after the requeue.
CatchBlock_Rethrow(eventsToSend, maxRetries, queue) ==
    [queue |-> Requeue(RetryableEvents(eventsToSend, maxRetries), queue),
     pc |-> "threw"]

\* catch (error) { ... }: the queue the block leaves, and how the locked
\* function goes on: to its end ("requeued"), no error leaving the block.
CatchBlock(eventsToSend, maxRetries, queue) ==
    [queue |-> Requeue(RetryableEvents(eventsToSend, maxRetries), queue),
     pc |-> "requeued"]

\* sendEvents(eventsToSend.map((qe) => qe.event)): the POST body.
Payload(eventsToSend) == [k \in 1..Len(eventsToSend) |-> eventsToSend[k].event]

\* The function flushQueue() passes to flushLock.acquire("flush", ...), up
\* to its first suspension: the swap-out under the "eventQueue" key.
RunFlush(call, pending, queue) ==
    LET swap == SwapOut(queue)
    IN  [lock |-> [pc |-> "swapped", call |-> call,
                   eventsToSend |-> swap.eventsToSend, pending |-> pending],
         queue |-> swap.queue]

\* The body of the POST: the payload as axios serialises it, each event
\* with the fields the submitted object has.
PostData(events) == [k \in 1..Len(events) |-> EventDef(events[k])]

\* flushQueue() without the "flush" lock: the function runs at once.
FlushQueue_NoLock(lock, queue, origin) ==
    RunFlush(FlushCall(origin, queue, FALSE), lock.pending, queue)

\* flushLock.acquire("flush", ...): the function runs at once if the key is
\* free, and is appended to the lock's pending list otherwise.
FlushQueue(lock, queue, origin) ==
    IF lock.pc = "free"
    THEN RunFlush(FlushCall(origin, queue, FALSE), lock.pending, queue)
    ELSE [lock |-> [lock EXCEPT !.pending =
                       Append(@, FlushCall(origin, queue, TRUE))],
          queue |-> queue]

\* A swap-out that never releases the "eventQueue" key.
FlushMicrotasks_NoRelease(lock, f, i) == <<>>

\* The reaction a flushQueue() call queues: the release of the "eventQueue"
\* key after the swap-out, when the call got the "flush" key at once.
FlushMicrotasks(lock, f, i) ==
    IF f.lock.pending = lock.pending
    THEN <<Microtask("eventQueueDone", i)>>
    ELSE <<>>

\* monitor() with the check of this.flushTimeoutId left out.
TimerAbsent_Unchecked(ref) == TRUE

\* !this.flushTimeoutId: no timer reference is stored.
TimerAbsent(ref) == ref = "null"

\* clearTimeout(this.flushTimeoutId): the number of live timers after it; a
\* reference to a timer that has fired cancels nothing.
ClearTimeout(ref, live) == IF ref = "pending" THEN live - 1 ELSE live

\* monitor() after the push: flush when the batch size is reached.
BatchSizeReached(queue, size) == Len(queue) >= size

\* The constructor's resolved configuration.
ConstructorBatchSize(opts) == DEFAULT_BATCH_SIZE
ConstructorRetries(opts) == DEFAULT_RETRIES

\* getInstance(options) with the check of Chirpier.instance left out.
Constructs_Always(inst, opts) == Truthy(opts.key)

\* getInstance(options) with the check of options.key left out.
Constructs_IgnoreKey(inst, opts) == inst = NULL

\* getInstance(options) constructs a client.
Constructs(inst, opts) == inst = NULL /\ Truthy(opts.key)

\* The constructor throws "API key is required and must be a string".
ConstructorThrows(opts) == ~Truthy(opts.key) \/ opts.key.typ # "string"

\* ---------------------------------------------------------------- actions
\* initialize(options)
Initialize(opts) ==
    /\ HostMayCall
    /\ LET valid == isValidJWT(opts.key) IN
       IF valid = TYPE_ERROR THEN
           /\ lastCall' = Outcome("initialize", opts.key, TYPE_ERROR, "")
           /\ UNCHANGED stateVars
       ELSE IF valid = "false" THEN
           /\ lastCall' = Outcome("initialize", opts.key, ERR_INVALID_JWT, "")
           /\ UNCHANGED stateVars
       ELSE IF Constructs(instance, opts) THEN
           IF ConstructorThrows(opts) THEN
               /\ lastCall' = Outcome("initialize", opts.key, ERR_KEY_REQUIRED, "")
               /\ UNCHANGED stateVars
           ELSE
               /\ created < MaxInstances
               /\ LET i == created + 1 IN
                   /\ created' = i
                   /\ instance' = i
                   /\ options' = [options EXCEPT ![i] = opts]
                   /\ apiKey' = [apiKey EXCEPT ![i] = opts.key]
                   /\ batchSize' = [batchSize EXCEPT ![i] = ConstructorBatchSize(opts)]
                   /\ retries' = [retries EXCEPT ![i] = ConstructorRetries(opts)]
               /\ lastCall' = Outcome("initialize", opts.key, "", "")
               /\ UNCHANGED <<eventQueue, flushTimeoutId, timers, queueLock, flushLock,
                              resumeMonitor, stopResume, microtasks, requests,
                              clock, stops, failures>>
       ELSE
           /\ lastCall' = Outcome("initialize", opts.key, "", "")
           /\ UNCHANGED stateVars

\* The options monitor() of the module passes to getInstance: `{}`.
MonitorOptions_Remembered == [key |-> KEY_JWT, batchSize |-> 0]
MonitorOptions == NoOptions

\* monitor(event) of the module: getInstance({}), then the instance method
\* Chirpier.monitor(event) up to its first suspension, its rejection caught.
Monitor(e) ==
    /\ HostMayCall
    /\ LET constructs == Constructs(instance, MonitorOptions) IN
       IF constructs /\ ConstructorThrows(MonitorOptions) THEN
           \* new Chirpier({}) throws: the options hold no key
           /\ lastCall' = Outcome("monitor", e, ERR_KEY_REQUIRED, "")
           /\ UNCHANGED stateVars
       ELSE IF ~constructs /\ instance = NULL THEN
           /\ lastCall' = Outcome("monitor", e, ERR_NOT_INITIALIZED, "")
           /\ UNCHANGED stateVars
       ELSE
           LET i == IF constructs THEN created + 1 ELSE instance IN
           /\ constructs => created < MaxInstances
           /\ IF constructs THEN
                  /\ created' = i
                  /\ instance' = i
                  /\ options' = [options EXCEPT ![i] = MonitorOptions]
                  /\ apiKey' = [apiKey EXCEPT ![i] = MonitorOptions.key]
                  /\ batchSize' = [batchSize EXCEPT ![i] =
                                      ConstructorBatchSize(MonitorOptions)]
                  /\ retries' = [retries EXCEPT ![i] =
                                    ConstructorRetries(MonitorOptions)]
              ELSE
                  UNCHANGED <<instance, created, options, apiKey, batchSize,
                              retries>>
           /\ IF ~isValidEvent(EventDef(e)) THEN
                  /\ lastCall' = Outcome("monitor", e, "", ERR_INVALID_EVENT)
                  /\ UNCHANGED <<eventQueue, queueLock, microtasks, clock>>
              ELSE
                  /\ clock < (IF StopCount > 1 THEN MaxCallsRestop ELSE MaxCalls)
                  /\ clock' = clock + 1
                  /\ IF queueLock[i].held = "free" THEN
                         LET body == PushBody(eventQueue[i], e, clock + 1) IN
                         /\ eventQueue' = [eventQueue EXCEPT ![i] = body.queue]
                         /\ queueLock' = [queueLock EXCEPT ![i].held = body.held]
                         /\ microtasks' =
                                Append(microtasks, Microtask("queueDone", i))
                         /\ lastCall' =
                                IF body.held = "pushed"
                                THEN Outcome("monitor", e, "", "")
                                ELSE Outcome("monitor", e, "", ERR_QUEUE_FULL)
                     ELSE
                         /\ queueLock' = [queueLock EXCEPT ![i].pending =
                                Append(@, [event |-> e, timestamp |-> clock + 1])]
                         /\ lastCall' = Outcome("monitor", e, "", "")
                         /\ UNCHANGED <<eventQueue, microtasks>>
           /\ UNCHANGED <<flushTimeoutId, timers, flushLock, resumeMonitor,
                          stopResume, requests, stops, failures>>

\* The "queue" key is released: the holder's monitor() continues if its
\* push succeeded, and the next pending push runs.
QueueLockDone(i) ==
    /\ NextMicrotask("queueDone", i)
    /\ queueLock[i].held # "free"
    /\ microtasks' = Tail(microtasks)
           \o (IF queueLock[i].held = "pushed"
               THEN <<Microtask("monitor", i)>> ELSE <<>>)
           \o (IF queueLock[i].pending = <<>>
               THEN <<>> ELSE <<Microtask("queueDone", i)>>)
    /\ resumeMonitor' = [resumeMonitor EXCEPT ![i] =
           IF queueLock[i].held = "pushed" THEN @ + 1 ELSE @]
    /\ IF queueLock[i].pending = <<>> THEN
           /\ queueLock' = [queueLock EXCEPT ![i].held = "free"]
           /\ lastCall' = NoCall
           /\ UNCHANGED eventQueue
       ELSE
           LET next == Head(queueLock[i].pending)
               body == PushBody(eventQueue[i], next.event, next.timestamp)
           IN  /\ eventQueue' = [eventQueue EXCEPT ![i] = body.queue]
               /\ queueLock' = [queueLock EXCEPT
                      ![i] = [held |-> body.held, pending |-> Tail(@.pending)]]
               /\ lastCall' = IF body.held = "pushed"
                              THEN NoCall
                              ELSE Outcome("deferred", next.event, "", ERR_QUEUE_FULL)
    /\ UNCHANGED <<instance, created, options, apiKey, batchSize, retries,
                   flushTimeoutId, timers, flushLock, stopResume, requests, clock,
                   stops, failures>>

\* monitor() after `await this.queueLock.acquire(...)`.
MonitorResume(i) ==
    /\ NextMicrotask("monitor", i)
    /\ resumeMonitor[i] > 0
    /\ resumeMonitor' = [resumeMonitor EXCEPT ![i] = @ - 1]
    /\ IF BatchSizeReached(eventQueue[i], batchSize[i]) THEN
           LET f == FlushQueue(flushLock[i], eventQueue[i], "monitor") IN
           /\ flushLock' = [flushLock EXCEPT ![i] = f.lock]
           /\ eventQueue' = [eventQueue EXCEPT ![i] = f.queue]
           /\ microtasks' = Tail(microtasks) \o FlushMicrotasks(flushLock[i], f, i)
           /\ UNCHANGED <<flushTimeoutId, timers>>
       ELSE IF TimerAbsent(flushTimeoutId[i]) THEN
           /\ flushTimeoutId' = [flushTimeoutId EXCEPT ![i] = "pending"]
           /\ timers' = [timers EXCEPT ![i] = @ + 1]
           /\ microtasks' = Tail(microtasks)
           /\ UNCHANGED <<flushLock, eventQueue>>
       ELSE
           /\ microtasks' = Tail(microtasks)
           /\ UNCHANGED <<flushLock, eventQueue, flushTimeoutId, timers>>
    /\ lastCall' = NoCall
    /\ UNCHANGED <<instance, created, options, apiKey, batchSize, retries,
                   queueLock, stopResume, requests, clock, stops, failures>>

\* The flush timer fires: () => this.flushQueue().
TimerFire(i) ==
    /\ timers[i] > 0
    /\ ~MicrotaskPending
    /\ timers' = [timers EXCEPT ![i] = @ - 1]
    /\ flushTimeoutId' = [flushTimeoutId EXCEPT ![i] =
                             IF timers[i] = 1 THEN "fired" ELSE @]
    /\ LET f == FlushQueue(flushLock[i], eventQueue[i], "timer") IN
           /\ flushLock' = [flushLock EXCEPT ![i] = f.lock]
           /\ eventQueue' = [eventQueue EXCEPT ![i] = f.queue]
           /\ microtasks' = microtasks \o FlushMicrotasks(flushLock[i], f, i)
    /\ lastCall' = NoCall
    /\ UNCHANGED <<instance, created, options, apiKey, batchSize, retries,
                   queueLock, resumeMonitor, stopResume, requests, clock,
                   stops, failures>>

\* The "eventQueue" key is released after the swap-out or the splice-back:
\* the locked function of flushQueue() continues next.
EventQueueLockDone(i) ==
    /\ NextMicrotask("eventQueueDone", i)
    /\ microtasks' = Append(Tail(microtasks), Microtask("flush", i))
    /\ lastCall' = NoCall
    /\ UNCHANGED <<instance, created, clientVars, stopResume, requests, clock,
                   stops, failures>>

\* flushQueue() after the swap-out without the clearing of the timer.
FlushAfterSwap_KeepTimer(i) ==
    /\ NextMicrotask("flush", i)
    /\ flushLock[i].pc = "swapped"
    /\ IF Len(flushLock[i].eventsToSend) = 0 THEN
           /\ flushLock' = [flushLock EXCEPT ![i].pc = "done"]
           /\ microtasks' = Append(Tail(microtasks), Microtask("flushDone", i))
           /\ UNCHANGED requests
       ELSE
           /\ microtasks' = Tail(microtasks)
           /\ flushLock' = [flushLock EXCEPT ![i].pc = "sending"]
           /\ requests' = Append(requests,
                  [client |-> i, call |-> flushLock[i].call,
                   events |-> Payload(flushLock[i].eventsToSend),
                   sent |-> flushLock[i].eventsToSend, status |-> "inflight"])
    /\ lastCall' = NoCall
    /\ UNCHANGED <<instance, created, options, apiKey, batchSize, retries,
                   eventQueue, flushTimeoutId, timers, queueLock, resumeMonitor,
                   stopResume, clock, stops, failures>>

\* flushQueue() after the swap-out: return on an empty snapshot, else
\* clear the timer and POST the snapshot.
FlushAfterSwap(i) ==
    /\ NextMicrotask("flush", i)
    /\ flushLock[i].pc = "swapped"
    /\ IF Len(flushLock[i].eventsToSend) = 0 THEN
           /\ flushLock' = [flushLock EXCEPT ![i].pc = "done"]
           /\ microtasks' = Append(Tail(microtasks), Microtask("flushDone", i))
           /\ UNCHANGED <<flushTimeoutId, timers, requests>>
       ELSE
           /\ flushTimeoutId' = [flushTimeoutId EXCEPT ![i] = "null"]
           /\ timers' = [timers EXCEPT ![i] = ClearTimeout(flushTimeoutId[i], @)]
           /\ microtasks' = Tail(microtasks)
           /\ flushLock' = [flushLock EXCEPT ![i].pc = "sending"]
           /\ requests' = Append(requests,
                  [client |-> i, call |-> flushLock[i].call,
                   events |-> Payload(flushLock[i].eventsToSend),
                   sent |-> flushLock[i].eventsToSend, status |-> "inflight"])
    /\ lastCall' = NoCall
    /\ UNCHANGED <<instance, created, options, apiKey, batchSize, retries,
                   eventQueue, queueLock, resumeMonitor, stopResume, clock,
                   stops, failures>>

\* The request of client i that is in flight.
InFlight(i) ==
    CHOOSE k \in 1..Len(requests) :
        requests[k].client = i /\ requests[k].status = "inflight"

\* The POST resolves.
SendSucceeds(i) ==
    /\ flushLock[i].pc = "sending"
    /\ ~MicrotaskPending
    /\ flushLock' = [flushLock EXCEPT ![i].pc = "done"]
    /\ microtasks' = Append(microtasks, Microtask("flushDone", i))
    /\ requests' = [requests EXCEPT ![InFlight(i)].status = "ok"]
    /\ lastCall' = NoCall
    /\ UNCHANGED <<instance, created, options, apiKey, batchSize, retries,
                   eventQueue, flushTimeoutId, timers, queueLock, resumeMonitor,
                   stopResume, clock, stops, failures>>

\* The POST rejects: the catch block requeues or drops the snapshot.
SendFails(i) ==
    /\ flushLock[i].pc = "sending"
    /\ ~MicrotaskPending
    /\ failures < (IF StopCount > 1 THEN MaxFailuresRestop ELSE MaxFailures)
    /\ failures' = failures + 1
    /\ LET c == CatchBlock(flushLock[i].eventsToSend, retries[i], eventQueue[i]) IN
           /\ eventQueue' = [eventQueue EXCEPT ![i] = c.queue]
           /\ flushLock' = [flushLock EXCEPT ![i].pc = c.pc]
    /\ microtasks' = Append(microtasks, Microtask("eventQueueDone", i))
    /\ requests' = [requests EXCEPT ![InFlight(i)].status = "failed"]
    /\ lastCall' = NoCall
    /\ UNCHANGED <<instance, created, options, apiKey, batchSize, retries,
                   flushTimeoutId, timers, queueLock, resumeMonitor, stopResume, clock,
                   stops>>

\* flushQueue() after the requeue: the locked function returns.
FlushAfterRequeue(i) ==
    /\ NextMicrotask("flush", i)
    /\ flushLock[i].pc \in {"requeued", "threw"}
    /\ flushLock' = [flushLock EXCEPT ![i].pc =
                        IF @ = "requeued" THEN "done" ELSE @]
    /\ microtasks' = Append(Tail(microtasks), Microtask("flushDone", i))
    /\ lastCall' = NoCall
    /\ UNCHANGED <<instance, created, options, apiKey, batchSize, retries,
                   eventQueue, flushTimeoutId, timers, queueLock, resumeMonitor,
                   stopResume, requests, clock, stops, failures>>

\* The "flush" key is released: a stop() that awaited this flush continues,
\* and the next pending flush starts with its swap-out. A locked function
\* that threw rejects the promise of its flushQueue() call, and a stop()
\* awaiting it rejects before `Chirpier.instance = null`.
FlushLockDone(i) ==
    /\ NextMicrotask("flushDone", i)
    /\ flushLock[i].pc \in {"done", "threw"}
    /\ microtasks' = Tail(microtasks)
           \o (IF flushLock[i].call.origin = "stop" /\ flushLock[i].pc = "done"
               THEN <<Microtask("stop", i)>> ELSE <<>>)
           \o (IF flushLock[i].pending = <<>>
               THEN <<>> ELSE <<Microtask("eventQueueDone", i)>>)
    /\ stopResume' = IF flushLock[i].call.origin = "stop" /\ flushLock[i].pc = "done"
                      THEN stopResume + 1 ELSE stopResume
    /\ IF flushLock[i].pending = <<>> THEN
           /\ flushLock' = [flushLock EXCEPT ![i] = FreeFlushLock]
           /\ UNCHANGED eventQueue
       ELSE
           LET f == RunFlush(Head(flushLock[i].pending),
                             Tail(flushLock[i].pending), eventQueue[i])
           IN  /\ flushLock' = [flushLock EXCEPT ![i] = f.lock]
               /\ eventQueue' = [eventQueue EXCEPT ![i] = f.queue]
    /\ lastCall' = IF flushLock[i].pc = "threw"
                   THEN Outcome("flushQueue", NoArg, "", SEND_ERROR)
                   ELSE NoCall
    /\ UNCHANGED <<instance, created, options, apiKey, batchSize, retries,
                   flushTimeoutId, timers, queueLock, resumeMonitor, requests, clock,
                   stops, failures>>

\* A stop() that clears the timer and the singleton without the final flush.
Stop_SkipFlush ==
    /\ HostMayCall
    /\ IF instance = NULL THEN
           /\ lastCall' = Outcome("stop", NoArg, "", "")
           /\ UNCHANGED stateVars
       ELSE
           /\ StopCount < MaxStops
           /\ stops' = [stops EXCEPT ![instance] = @ + 1]
           /\ flushTimeoutId' = [flushTimeoutId EXCEPT ![instance] = "null"]
           /\ timers' = [timers EXCEPT ![instance] =
                             ClearTimeout(flushTimeoutId[instance], @)]
           /\ instance' = NULL
           /\ lastCall' = Outcome("stop", NoArg, "", "")
           /\ UNCHANGED <<created, options, apiKey, batchSize, retries,
                          eventQueue, queueLock, flushLock, resumeMonitor,
                          stopResume, microtasks, requests, clock, failures>>

\* Chirpier.stop() up to `await Chirpier.instance.flushQueue()`.
Stop ==
    /\ HostMayCall
    /\ IF instance = NULL THEN
           /\ lastCall' = Outcome("stop", NoArg, "", "")
           /\ UNCHANGED stateVars
       ELSE
           /\ StopCount < MaxStops
           /\ StopCount > 0 =>
                  clock <= MaxCallsRestop /\ failures <= MaxFailuresRestop
           /\ stops' = [stops EXCEPT ![instance] = @ + 1]
           /\ LET i == instance
                  f == FlushQueue(flushLock[i], eventQueue[i], "stop")
              IN  /\ flushTimeoutId' = [flushTimeoutId EXCEPT ![i] = "null"]
                  /\ timers' = [timers EXCEPT ![i] =
                                    ClearTimeout(flushTimeoutId[i], @)]
                  /\ flushLock' = [flushLock EXCEPT ![i] = f.lock]
                  /\ eventQueue' = [eventQueue EXCEPT ![i] = f.queue]
                  /\ microtasks' = microtasks \o FlushMicrotasks(flushLock[i], f, i)
           /\ lastCall' = Outcome("stop", NoArg, "", "")
           /\ UNCHANGED <<instance, created, options, apiKey, batchSize, retries,
                          queueLock, resumeMonitor, stopResume, requests, clock,
                          failures>>

\* Chirpier.stop() after the await: Chirpier.instance = null.
StopResume ==
    /\ microtasks # <<>>
    /\ Head(microtasks).task = "stop"
    /\ microtasks' = Tail(microtasks)
    /\ stopResume > 0
    /\ stopResume' = stopResume - 1
    /\ instance' = NULL
    /\ lastCall' = NoCall
    /\ UNCHANGED <<created, clientVars, requests, clock, stops, failures>>

\* The events the host passes to monitor(): any invalid one, and valid ones
\* in turn, so that successive valid events differ.
NthEvent(k) == IF k % 2 = 1 THEN "sales" ELSE "visits"
HostEvents == (EventIds \ ValidEventIds) \cup {NthEvent(clock + 1)}

\* The options objects the host passes to initialize().
OptionsSet ==
    {[key |-> KEY_JWT, batchSize |-> 0], [key |-> KEY_JWT_B, batchSize |-> 2],
     [key |-> KEY_API_KEY, batchSize |-> 0], [key |-> KEY_NUMBER_PAYLOAD, batchSize |-> 2],
     [key |-> KEY_UNDEFINED, batchSize |-> 0]}

Next ==
    \/ \E opts \in OptionsSet : Initialize(opts)
    \/ \E e \in HostEvents : Monitor(e)
    \/ Stop
    \/ StopResume
    \/ \E i \in Insts :
          \/ QueueLockDone(i)
          \/ MonitorResume(i)
          \/ TimerFire(i)
          \/ EventQueueLockDone(i)
          \/ FlushAfterSwap(i)
          \/ SendSucceeds(i)
          \/ SendFails(i)
          \/ FlushAfterRequeue(i)
          \/ FlushLockDone(i)

Spec == Init /\ [][Next]_vars

\* The program with an event loop that runs every queued continuation, with
\* timers that fire and with sends that complete one way or the other; the
\* host is free to call or not.
Continuation(i) ==
    \/ QueueLockDone(i)
    \/ MonitorResume(i)
    \/ EventQueueLockDone(i)
    \/ FlushAfterSwap(i)
    \/ FlushAfterRequeue(i)
    \/ FlushLockDone(i)
FairSpec ==
    /\ Spec
    /\ WF_vars(StopResume)
    /\ \A i \in Insts :
          /\ WF_vars(Continuation(i))
          /\ WF_vars(TimerFire(i))
          /\ WF_vars(SendSucceeds(i) \/ SendFails(i))

\* ------------------------------------------------- the validator on its own
\* Chirpier.monitor(event) up to the end of its validation, on any event:
\* the promise rejects with the invalid-event error or the call goes on.
ValidateEvent(event) ==
    /\ lastCall' = Outcome("isValidEvent", event, "",
                           IF isValidEvent(event) THEN "" ELSE ERR_INVALID_EVENT)
    /\ UNCHANGED stateVars

ValidationNext == \E event \in Events : ValidateEvent(event)

ValidationSpec == Init /\ [][ValidationNext]_vars

\* ----------------------------------------------------------------- claims
\* C1: while no singleton client exists, every monitor(event) of the module,
\* with a valid or an invalid event, throws "Chirpier SDK is not initialized.
\* Please call initialize() first." and changes nothing: no queue, timer,
\* lock, pending continuation or request.
C1_MonitorBeforeInitializeThrows ==
    [][(instance = NULL /\ lastCall'.op = "monitor")
         => /\ lastCall'.thrown =
                 "Chirpier SDK is not initialized. Please call initialize() first."
            /\ lastCall'.rejected = ""
            /\ UNCHANGED stateVars]_vars

\* C1 witness: monitor has thrown not-initialized for a valid event, no
\* client ever having been constructed.
C1_Witness ==
    /\ instance = NULL
    /\ created = 0
    /\ lastCall.op = "monitor"
    /\ lastCall.arg \in ValidEventIds
    /\ lastCall.thrown = "Chirpier SDK is not initialized. Please call initialize() first."

\* The credentials of the model that are three-segment tokens whose header
\* and payload decode to JSON objects.
StructurallyValidJWTs == {KEY_JWT, KEY_JWT_B}

Quiescent(i) ==
    /\ flushTimeoutId[i] # "pending"
    /\ queueLock[i] = FreeQueueLock
    /\ flushLock[i] = FreeFlushLock
    /\ resumeMonitor[i] = 0

\* C3: with a transport that succeeds, after exactly one monitor call with a
\* valid event and no stop, at most one request is ever made, and once the
\* timer has fired and the flush has finished exactly one request has been
\* made, it holds exactly the submitted event, it succeeded, and nothing is
\* left in the queue to send.
C3_OneEventOneRequest ==
    (clock = 1 /\ failures = 0 /\ StopCount = 0) =>
        /\ Len(requests) <= 1
        /\ (instance # NULL /\ Quiescent(instance)) =>
              /\ Len(requests) = 1
              /\ requests[1].events = <<NthEvent(1)>>
              /\ requests[1].status = "ok"
              /\ eventQueue[instance] = <<>>

\* C3 witness: one valid event was submitted, its timer fired, and the one
\* request made for it succeeded.
C3_Witness ==
    /\ clock = 1 /\ failures = 0 /\ StopCount = 0
    /\ instance # NULL /\ Quiescent(instance)
    /\ Len(requests) = 1
    /\ requests[1].call.origin = "timer"
    /\ requests[1].status = "ok"

\* C4: on a client initialized with batchSize 2 and a transport that
\* succeeds, two valid events submitted without a stop are flushed by the
\* size trigger: the two events never rest in the queue once the monitor
\* continuations have run, and a request that holds both events was
\* dispatched from monitor(), not from the timer, and is the only request.
C4_BatchSizeTwoFlushesOnSize ==
    (/\ clock = 2 /\ failures = 0 /\ StopCount = 0
     /\ instance # NULL /\ options[instance].batchSize = 2) =>
        /\ ~(/\ Len(eventQueue[instance]) = 2
             /\ queueLock[instance] = FreeQueueLock
             /\ resumeMonitor[instance] = 0)
        /\ \A k \in 1..Len(requests) :
              Len(requests[k].events) = 2 =>
                  /\ requests[k].call.origin = "monitor"
                  /\ Len(requests) = 1

\* The events of a failed snapshot that are to be retried: those whose
\* counter is below the maximum, in snapshot order, each counter one higher.
Survivors(snapshot, maxRetries) ==
    LET kept == SelectSeq(snapshot, LAMBDA qe : qe.retryCount < maxRetries)
    IN  [k \in 1..Len(kept) |-> [kept[k] EXCEPT !.retryCount = @ + 1]]

IsPrefix(p, q) == Len(p) <= Len(q) /\ SubSeq(q, 1, Len(p)) = p

\* Request m is the first request of its client after request k.
NextRequestOfClient(k, m) ==
    /\ k < m
    /\ requests[k].client = requests[m].client
    /\ \A n \in (k + 1)..(m - 1) : requests[n].client # requests[k].client

\* C5: when a send fails, the events of its snapshot whose counter was below
\* the maximum are back at the head of the queue, in snapshot order, each
\* with its counter one higher, ahead of the events that arrived during the
\* send; and the next request of the client begins with exactly them.
C5_FailedSnapshotLeadsNextRequest ==
    /\ \A i \in Insts :
          flushLock[i].pc = "requeued" =>
              IsPrefix(Survivors(flushLock[i].eventsToSend, retries[i]),
                       eventQueue[i])
    /\ \A k, m \in 1..Len(requests) :
          (NextRequestOfClient(k, m) /\ requests[k].status = "failed") =>
              IsPrefix(Survivors(requests[k].sent, retries[requests[k].client]),
                       requests[m].sent)

\* C5 witness: a send failed, and the next request of the client holds the
\* retried events and, behind them, an event that arrived meanwhile.
C5_Witness ==
    \E k, m \in 1..Len(requests) :
        /\ NextRequestOfClient(k, m)
        /\ requests[k].status = "failed"
        /\ Survivors(requests[k].sent, retries[requests[k].client]) # <<>>
        /\ Len(requests[m].sent)
              > Len(Survivors(requests[k].sent, retries[requests[k].client]))

Timestamps(queue) == {queue[j].timestamp : j \in 1..Len(queue)}

\* C6 as stated: no request holds an event whose retry counter equals the
\* maximum retries of its client.
C6_NoRequestAtMaxRetries ==
    \A k \in 1..Len(requests) : \A j \in 1..Len(requests[k].sent) :
        requests[k].sent[j].retryCount # retries[requests[k].client]

\* C6 amended: no request holds an event whose retry counter exceeds the
\* maximum retries; an event whose counter equals the maximum is sent, and
\* once that send has failed the event is in no later request and not in the
\* queue.
C6_SentAtMaxThenExcluded ==
    \A k \in 1..Len(requests) : \A j \in 1..Len(requests[k].sent) :
        LET qe == requests[k].sent[j]
            i == requests[k].client
        IN  /\ qe.retryCount <= retries[i]
            /\ (qe.retryCount = retries[i] /\ requests[k].status = "failed") =>
                  /\ qe.timestamp \notin Timestamps(eventQueue[i])
                  /\ \A m \in (k + 1)..Len(requests) :
                        qe.timestamp \notin Timestamps(requests[m].sent)

\* C6 witness: a request held an event at the maximum counter and failed,
\* and the client has made a later request.
C6_Witness ==
    \E k, m \in 1..Len(requests) :
        /\ NextRequestOfClient(k, m)
        /\ requests[k].status = "failed"
        /\ \E j \in 1..Len(requests[k].sent) :
              requests[k].sent[j].retryCount = retries[requests[k].client]

\* C7: a push that finds the queue of its client at the maximum queue size
\* or above, whether it runs inside the monitor() call or later from the
\* lock's pending list, is rejected with "Event queue is full." and leaves
\* the queue, the timer, the flush lock and the requests as they were; and
\* the release of the lock after a rejected push queues no continuation of
\* monitor(), so the call schedules no flush.
C7_FullQueueRejects ==
    [][\A i \in Insts :
         LET direct == /\ lastCall'.op = "monitor"
                       /\ lastCall'.thrown = ""
                       /\ lastCall'.arg \in ValidEventIds
                       /\ instance = i
                       /\ queueLock[i].held = "free"
             deferred == /\ queueLock[i].held # "free"
                         /\ queueLock[i].pending # <<>>
                         /\ queueLock'[i].pending = Tail(queueLock[i].pending)
         IN  /\ ((direct \/ deferred) /\ Len(eventQueue[i]) >= MAX_QUEUE_SIZE) =>
                   /\ lastCall'.rejected = "Event queue is full."
                   /\ queueLock'[i].held = "full"
                   /\ eventQueue'[i] = eventQueue[i]
                   /\ flushTimeoutId'[i] = flushTimeoutId[i]
                   /\ flushLock'[i] = flushLock[i]
                   /\ requests' = requests
             /\ (queueLock[i].held = "full" /\ queueLock'[i] # queueLock[i]) =>
                   resumeMonitor'[i] = resumeMonitor[i]]_vars

\* C7 witness: a monitor() call has just been rejected with "Event queue is
\* full." by a client whose queue is at the maximum queue size.
C7_Witness ==
    /\ instance # NULL
    /\ lastCall.op = "monitor"
    /\ lastCall.rejected = "Event queue is full."
    /\ Len(eventQueue[instance]) >= MAX_QUEUE_SIZE

\* C8: when a stop() completes no client is left, and from then on monitor()
\* throws the not-initialized error until an initialize() succeeds; that
\* initialize() installs a fresh client with an empty queue that no stop()
\* was called on, the client accepts valid events, and it stays installed
\* until a stop() called on it completes.
C8_StoppedUntilInitialize ==
    [][/\ stopResume' < stopResume => instance' = NULL
       /\ (instance = NULL /\ StopCount > 0 /\ lastCall'.op = "monitor") =>
             lastCall'.thrown =
                 "Chirpier SDK is not initialized. Please call initialize() first."
       /\ (instance = NULL /\ instance' # NULL) =>
             /\ lastCall'.op = "initialize"
             /\ lastCall'.thrown = ""
             /\ eventQueue'[instance'] = <<>>
             /\ stops'[instance'] = 0
       /\ (instance # NULL /\ lastCall'.op = "monitor") =>
             lastCall'.thrown = ""
       /\ (instance # NULL /\ instance' = NULL) => stops[instance] > 0]_vars

\* C9 as stated: a request made by the final flush of a stop() belongs to a
\* stop() that found a non-empty queue and holds every event of that queue;
\* and when the final flush of a stop() that found a non-empty queue has
\* ended, every event of that queue has been part of a request.
C9_StopSendsQueueAtCall ==
    /\ \A k \in 1..Len(requests) :
          requests[k].call.origin = "stop" =>
              /\ requests[k].call.atCall # <<>>
              /\ Timestamps(requests[k].call.atCall)
                    \subseteq Timestamps(requests[k].sent)
    /\ \A i \in Insts :
          (flushLock[i].pc = "done" /\ flushLock[i].call.origin = "stop") =>
              \A t \in Timestamps(flushLock[i].call.atCall) :
                  \E k \in 1..Len(requests) : t \in Timestamps(requests[k].sent)

\* The requests the final flushes of stop() calls on client i have made.
StopRequests(i) ==
    {k \in 1..Len(requests) :
        requests[k].client = i /\ requests[k].call.origin = "stop"}

\* C9 amended: a stop() called while no flush of the client is in progress
\* takes the whole queue as the snapshot of its final flush within the call;
\* that flush then makes no request if the queue was empty, and otherwise one
\* request that holds exactly the events of the queue, in order; and the
\* final flushes make at most one request per stop() call.
C9_StopFlushesQueueWhenNoFlushRuns ==
    [][\A i \in Insts :
         /\ (lastCall'.op = "stop" /\ instance = i /\ flushLock[i].pc = "free") =>
               /\ flushLock'[i].pc = "swapped"
               /\ flushLock'[i].call = [origin |-> "stop", atCall |-> eventQueue[i],
                                        waited |-> FALSE]
               /\ flushLock'[i].eventsToSend = eventQueue[i]
               /\ eventQueue'[i] = <<>>
         /\ (/\ flushLock[i].pc = "swapped"
             /\ flushLock[i].call.origin = "stop"
             /\ ~flushLock[i].call.waited
             /\ flushLock'[i].pc # "swapped") =>
               IF flushLock[i].call.atCall = <<>>
               THEN requests' = requests
               ELSE /\ Len(requests') = Len(requests) + 1
                    /\ SubSeq(requests', 1, Len(requests)) = requests
                    /\ Last(requests').client = i
                    /\ Last(requests').call = flushLock[i].call
                    /\ Last(requests').sent = flushLock[i].call.atCall
                    /\ Last(requests').events =
                          [j \in 1..Len(flushLock[i].call.atCall) |->
                              flushLock[i].call.atCall[j].event]
         /\ Cardinality(StopRequests(i))' <= stops'[i]]_vars

\* C9 witness: a stop() found two events queued and no flush in progress,
\* its final flush sent exactly them in one request, and the stop() has
\* completed.
C9_Witness ==
    /\ instance = NULL
    /\ \E k \in 1..Len(requests) :
          /\ requests[k].call.origin = "stop"
          /\ ~requests[k].call.waited
          /\ Len(requests[k].call.atCall) = 2
          /\ requests[k].sent = requests[k].call.atCall
          /\ requests[k].status = "ok"
          /\ stops[requests[k].client] = 1

\* The events the client holds or has sent.
HeldEventIds ==
    UNION {{eventQueue[i][j].event : j \in 1..Len(eventQueue[i])} : i \in Insts}
      \cup UNION {{queueLock[i].pending[j].event :
                      j \in 1..Len(queueLock[i].pending)} : i \in Insts}
      \cup UNION {{requests[k].events[j] : j \in 1..Len(requests[k].events)} :
                      k \in 1..Len(requests)}

HexRun(cs, n) ==
    /\ Len(cs) = n
    /\ \A k \in 1..n :
          cs[k] \in {"0", "1", "2", "3", "4", "5", "6", "7", "8", "9",
                     "a", "b", "c", "d", "e", "f", "A", "B", "C", "D", "E", "F"}

\* v is a string in the canonical 8-4-4-4-12 form: five runs of hexadecimal
\* digits joined by hyphens.
CanonicalUuid(v) ==
    /\ v.typ = "string"
    /\ Len(v.chars) = 8 + 1 + 4 + 1 + 4 + 1 + 4 + 1 + 12
    /\ LET a == SubSeq(v.chars, 1, 8)
           b == SubSeq(v.chars, 10, 13)
           c == SubSeq(v.chars, 15, 18)
           d == SubSeq(v.chars, 20, 23)
           e == SubSeq(v.chars, 25, 36)
       IN  /\ v.chars = a \o <<"-">> \o b \o <<"-">> \o c \o <<"-">> \o d \o <<"-">> \o e
           /\ HexRun(a, 8) /\ HexRun(b, 4) /\ HexRun(c, 4) /\ HexRun(d, 4)
           /\ HexRun(e, 12)

\* v is a string with a character that is not white space.
NonBlankString(v) ==
    /\ v.typ = "string"
    /\ \E k \in 1..Len(v.chars) : v.chars[k] \notin {" ", "\t", "\n"}

\* C11: the validator accepts an event if and only if group_id is a string
\* in canonical 8-4-4-4-12 hexadecimal form, stream_name is a string that is
\* not empty after trimming, and value has type number (NaN and the
\* infinities included); every other event is rejected with the
\* invalid-event error.
C11_ValidationAcceptsExactly ==
    lastCall.op = "isValidEvent" =>
        /\ lastCall.rejected \in
              {"", "Invalid event format. Must include group_id, stream_name, and numeric value."}
        /\ lastCall.rejected = "" <=>
              /\ CanonicalUuid(lastCall.arg.group_id)
              /\ NonBlankString(lastCall.arg.stream_name)
              /\ lastCall.arg.value.typ = "number"

\* C11 witness: an event with a mixed-case UUID, a stream name padded with
\* white space and the value NaN has been accepted.
C11_Witness ==
    /\ lastCall.op = "isValidEvent"
    /\ lastCall.rejected = ""
    /\ lastCall.arg.group_id.chars[1] = "B"
    /\ lastCall.arg.stream_name.chars = <<" ", "v", " ">>
    /\ lastCall.arg.value = NaN

\* C12: every event in the body of a request carries an event_id, and an
\* event submitted with an event_id carries exactly that one.
C12_EveryPayloadEventHasEventId ==
    \A k \in 1..Len(requests) : \A j \in 1..Len(requests[k].events) :
        LET sent == PostData(requests[k].events)[j]
            submitted == EventDef(requests[k].sent[j].event)
        IN  /\ sent.event_id.typ = "string"
            /\ submitted.event_id.typ = "string" =>
                  sent.event_id = submitted.event_id

\* C13: while a client is installed, an initialize() call, whatever its
\* credential and options and whether or not a stop() is awaiting its final
\* flush, constructs nothing and changes nothing: the singleton, the number
\* of clients built, and the credential, configuration, queue, timer and
\* locks of every client stay as they were.
C13_FirstInitializeWins ==
    [][(instance # NULL /\ lastCall'.op = "initialize") =>
          /\ instance' = instance
          /\ created' = created
          /\ UNCHANGED stateVars]_vars

\* C13 witness: initialize() was called with another valid credential and a
\* batchSize option on a client that holds a queued event and a pending
\* timer, and returned without error; the client has its first credential.
C13_Witness ==
    /\ instance # NULL
    /\ lastCall.op = "initialize"
    /\ lastCall.thrown = ""
    /\ lastCall.arg = KEY_JWT_B
    /\ apiKey[instance] = KEY_JWT
    /\ options[instance].batchSize = 0
    /\ Len(eventQueue[instance]) > 0
    /\ flushTimeoutId[instance] = "pending"

\* C14: a failed send never reaches the host. No flushQueue() call, whether
\* made by monitor(), by the timer or by stop(), throws, and no call rejects
\* with the transport error; the step in which a request fails changes only
\* the queue (and the position of the flush), and a stop() whose own request
\* failed still goes on to clear the singleton.
C14_SendFailureStaysInside ==
    /\ [](/\ lastCall.thrown # SEND_ERROR
          /\ lastCall.rejected # SEND_ERROR
          /\ \A i \in Insts : flushLock[i].pc # "threw")
    /\ [][\A i \in Insts :
            /\ (\E k \in 1..Len(requests) :
                    /\ requests[k].client = i
                    /\ requests[k].status = "inflight"
                    /\ requests'[k].status = "failed")
               => /\ lastCall' = NoCall
                  /\ flushLock'[i].pc = "requeued"
                  /\ UNCHANGED <<instance, created, options, apiKey, batchSize,
                                 retries, flushTimeoutId, timers, queueLock,
                                 resumeMonitor, stopResume>>
            /\ (/\ flushLock[i].pc = "done"
                /\ flushLock'[i].pc # "done"
                /\ flushLock[i].call.origin = "stop")
               => stopResume' = stopResume + 1]_vars

\* C14 witness: the request made by a stop() failed, the stop() has
\* completed and cleared the singleton, and the last step showed the host
\* no error.
C14_Witness ==
    /\ instance = NULL
    /\ stopResume = 0
    /\ lastCall = NoCall
    /\ \E k \in 1..Len(requests) :
          /\ requests[k].status = "failed"
          /\ requests[k].call.origin = "stop"
          /\ flushLock[requests[k].client] = FreeFlushLock

\* The event pushed by the monitor() call with timestamp t is in a queue, in
\* the snapshot of a flush or in a request: monitor() accepted it.
Accepted(t) ==
    \/ \E i \in Insts : t \in Timestamps(eventQueue[i])
                                \cup Timestamps(flushLock[i].eventsToSend)
    \/ \E k \in 1..Len(requests) : t \in Timestamps(requests[k].sent)

\* It was in a request that succeeded.
Delivered(t) ==
    \E k \in 1..Len(requests) :
        requests[k].status = "ok" /\ t \in Timestamps(requests[k].sent)

\* It was in a request that failed with its retries used up.
Dropped(t) ==
    \E k \in 1..Len(requests) : \E j \in 1..Len(requests[k].sent) :
        /\ requests[k].status = "failed"
        /\ requests[k].sent[j].timestamp = t
        /\ requests[k].sent[j].retryCount >= retries[requests[k].client]

\* C15: with continuations run, timers fired and sends completed, every
\* event accepted by monitor() is eventually in a request that succeeded or
\* dropped with its retries used up, whether or not the host calls again.
C15_AcceptedEventuallySentOrDropped ==
    \A t \in 1..MaxCalls : Accepted(t) ~> (Delivered(t) \/ Dropped(t))

\* C16: events go out in monitor() call order. Inside a request an event
\* of an earlier call stands before an event of a later call, and a request
\* never holds an event of a later call than an event whose first request
\* is still to come.
C16_DeliveredInCallOrder ==
    /\ \A k \in 1..Len(requests) : \A j1, j2 \in 1..Len(requests[k].sent) :
          requests[k].sent[j1].timestamp < requests[k].sent[j2].timestamp
              => j1 < j2
    /\ \A k, m \in 1..Len(requests) :
          \A a \in Timestamps(requests[m].sent), b \in Timestamps(requests[k].sent) :
              (k < m /\ a < b) =>
                  \E n \in 1..k : a \in Timestamps(requests[n].sent)

\* C17: an initialize() call whose credential is missing or not a string
\* throws one of the SDK's own errors (a ChirpierError: the invalid-JWT or
\* the key-required message), and constructs no client.
C17_NonStringCredentialRaisesSdkError ==
    /\ [](lastCall.op = "initialize" =>
            (lastCall.arg.typ # "string" =>
                lastCall.thrown \in {ERR_INVALID_JWT, ERR_KEY_REQUIRED}))
    /\ [][lastCall'.op = "initialize" =>
            (lastCall'.arg.typ # "string" => UNCHANGED <<instance, created>>)]_vars

\* C18: the resolved batch size of every constructed client is the value
\* given to initialize() when one was given (the model writes 0 for an
\* option left out) and the default otherwise, its retry count is the
\* default (the model's host never supplies one), and neither changes once
\* the client is constructed.
C18_ResolvedConfiguration ==
    /\ [](\A i \in 1..created :
            /\ batchSize[i] = IF options[i].batchSize # 0
                              THEN options[i].batchSize
                              ELSE DEFAULT_BATCH_SIZE
            /\ retries[i] = DEFAULT_RETRIES)
    /\ [][\A i \in 1..created :
            batchSize'[i] = batchSize[i] /\ retries'[i] = retries[i]]_vars

\* C19: flushes of a client are serialized. At most one request of a
\* client is outstanding; a flush triggered while another has not finished
\* is put behind it and changes neither the queue, nor the snapshot, nor the
\* requests; the queue is swapped out, and a waiting flush is started, only
\* when no flush is running or the running one has just finished.
C19_OneFlushInFlight ==
    /\ [](\A i \in Insts :
            Cardinality({k \in 1..Len(requests) :
                requests[k].client = i /\ requests[k].status = "inflight"}) <= 1)
    /\ [][\A i \in Insts :
            /\ (/\ flushLock[i].pc \notin {"free", "done"}
                /\ Len(flushLock'[i].pending) > Len(flushLock[i].pending))
               => /\ eventQueue'[i] = eventQueue[i]
                  /\ requests' = requests
                  /\ flushLock'[i].pc = flushLock[i].pc
                  /\ flushLock'[i].eventsToSend = flushLock[i].eventsToSend
            /\ (eventQueue[i] # <<>> /\ eventQueue'[i] = <<>>)
               => flushLock[i].pc \in {"free", "done"}
            /\ Len(flushLock'[i].pending) < Len(flushLock[i].pending)
               => flushLock[i].pc = "done"
            /\ Len(requests') > Len(requests) /\ Last(requests').client = i
               => \A k \in 1..Len(requests) :
                     requests[k].client = i => requests[k].status # "inflight"]_vars

\* C19 witness: while a request of a client is outstanding, a second flush
\* has been triggered and waits, with events in the queue it will take.
C19_Witness ==
    \E i \in Insts :
        /\ flushLock[i].pc = "sending"
        /\ Len(flushLock[i].pending) > 0
        /\ eventQueue[i] # <<>>

\* C20: the queue of a client never holds more than MAX_QUEUE_SIZE events,
\* also after a failed snapshot is put back ahead of the events that arrived
\* during its send.
C20_QueueWithinMaxSize ==
    \A i \in Insts : Len(eventQueue[i]) <= MAX_QUEUE_SIZE

\* The requests that held the event of the monitor() call with timestamp t,
\* and those of them that failed.
Attempts(t) == {k \in 1..Len(requests) : t \in Timestamps(requests[k].sent)}
FailedAttempts(t) == {k \in Attempts(t) : requests[k].status = "failed"}

\* The events a client holds: its queue, and the snapshot of a flush that
\* has swapped the queue out and not yet seen its send complete.
HeldBy(i) ==
    {eventQueue[i][j] : j \in 1..Len(eventQueue[i])}
      \cup IF flushLock[i].pc \in {"swapped", "sending"}
           THEN {flushLock[i].eventsToSend[j] :
                     j \in 1..Len(flushLock[i].eventsToSend)}
           ELSE {}

\* C21: the retry counter of every held event is the number of failed
\* requests that held the event, is never above the client's maximum
\* retries R, and no event is ever in more than R + 1 requests; an event
\* that was in no request has counter 0.
C21_RetryCounterCountsFailures ==
    /\ \A i \in Insts : \A qe \in HeldBy(i) :
          /\ qe.retryCount = Cardinality(FailedAttempts(qe.timestamp))
          /\ qe.retryCount <= retries[i]
          /\ Attempts(qe.timestamp) = {} => qe.retryCount = 0
    /\ \A k \in 1..Len(requests) : \A t \in Timestamps(requests[k].sent) :
          Cardinality(Attempts(t)) <= retries[requests[k].client] + 1

\* C21 witness: an event whose counter has reached the maximum is in flight
\* in its last attempt, after as many failed requests as the maximum.
C21_Witness ==
    \E i \in Insts :
        /\ retries[i] > 0
        /\ flushLock[i].pc = "sending"
        /\ \E qe \in HeldBy(i) :
              /\ qe.retryCount = retries[i]
              /\ Cardinality(FailedAttempts(qe.timestamp)) = retries[i]
              /\ Cardinality(Attempts(qe.timestamp)) = retries[i] + 1

\* C22: when a flush of a client ends with events in the queue, no other
\* flush waiting or scheduled, and no monitor() call of the client still to
\* continue, the step that ends the flush schedules a flush timer.
C22_FlushEndReschedules ==
    [][\A i \in Insts :
          (/\ flushLock[i].pc = "done"
           /\ flushLock'[i].pc = "free"
           /\ eventQueue'[i] # <<>>
           /\ queueLock'[i] = FreeQueueLock
           /\ resumeMonitor'[i] = 0
           /\ flushTimeoutId[i] # "pending")
          => flushTimeoutId'[i] = "pending"]_vars

\* C23: a flush that has begun, whatever triggered it and whether or not
\* its snapshot is empty, leaves its first continuation with no timer
\* pending and no timer reference stored; and a monitor() call that
\* continues with the queue under the batch size leaves a timer pending,
\* unless the timer has fired and its flush is still waiting for the
\* "flush" key.
C23_FlushBeginClearsTimer ==
    [][\A i \in Insts :
          /\ (flushLock[i].pc = "swapped" /\ flushLock'[i].pc # "swapped")
             => flushTimeoutId'[i] = "null"
          /\ (/\ resumeMonitor'[i] < resumeMonitor[i]
              /\ ~BatchSizeReached(eventQueue[i], batchSize[i]))
             => \/ flushTimeoutId'[i] = "pending"
                \/ /\ flushTimeoutId'[i] = "fired"
                   /\ \E j \in 1..Len(flushLock[i].pending) :
                         flushLock[i].pending[j].origin = "timer"]_vars

\* C23 witness: a flush started by the timer behind another flush has begun,
\* found the queue empty and returned, and no timer reference is stored.
C23_Witness ==
    \E i \in Insts :
        /\ flushLock[i].pc = "done"
        /\ flushLock[i].call.origin = "timer"
        /\ flushLock[i].eventsToSend = <<>>
        /\ flushTimeoutId[i] = "null"

\* C24: a client never has two flush timers pending: the number of its
\* timers that were set and have neither fired nor been cleared is at most
\* one, a timer is set only when none is live, and the stored reference
\* names the live timer whenever there is one.
C24_OneTimerPending ==
    /\ [](\A i \in Insts :
            /\ timers[i] <= 1
            /\ timers[i] = 1 <=> flushTimeoutId[i] = "pending")
    /\ [][\A i \in Insts : timers'[i] > timers[i] => timers[i] = 0]_vars

\* C24 witness: a monitor() call continues on a client whose timer is
\* pending while a request is in flight, and the client still has one timer.
C24_Witness ==
    \E i \in Insts :
        /\ timers[i] = 1
        /\ flushLock[i].pc = "sending"
        /\ Len(eventQueue[i]) > 1
        /\ lastCall = NoCall
        /\ resumeMonitor[i] = 0

\* C25: push, swap-out and splice-back exclude one another: no client has
\* a monitor() call holding the lock of its push while a flush holds the
\* lock of its swap-out or of its splice-back.
C25_QueueMutationsExclusive ==
    \A i \in Insts : ~(QueueKeyHeld(i) /\ EventQueueKeyHeld(i))

\* C26: a monitor() call made while a request of its client is in flight
\* (and no other push is under way) appends its event to the queue in the
\* call itself and touches neither the snapshot nor the requests; a swap-out
\* takes exactly the queue as it is and leaves it empty; the snapshot does
\* not change until its send completes, the request made from it holds
\* exactly the snapshot, and no event of the snapshot is in the queue.
C26_MonitorDuringSend ==
    /\ [](\A i \in Insts :
            flushLock[i].pc \in {"swapped", "sending"} =>
                Timestamps(eventQueue[i])
                    \cap Timestamps(flushLock[i].eventsToSend) = {})
    /\ [][\A i \in Insts :
            /\ (/\ lastCall'.op = "monitor"
                /\ lastCall'.thrown = "" /\ lastCall'.rejected = ""
                /\ instance = i
                /\ flushLock[i].pc = "sending"
                /\ ~QueueKeyHeld(i))
               => /\ eventQueue'[i] =
                        Append(eventQueue[i], QueuedEvent(lastCall'.arg, clock'))
                  /\ flushLock' = flushLock
                  /\ requests' = requests
            /\ (flushLock[i].pc # "swapped" /\ flushLock'[i].pc = "swapped")
               => /\ flushLock'[i].eventsToSend = eventQueue[i]
                  /\ eventQueue'[i] = <<>>
            /\ (flushLock[i].pc = "swapped" /\ flushLock'[i].pc = "sending")
               => /\ flushLock'[i].eventsToSend = flushLock[i].eventsToSend
                  /\ Last(requests').client = i
                  /\ Last(requests').sent = flushLock[i].eventsToSend
            /\ (flushLock[i].pc = "sending" /\ flushLock'[i].pc = "sending")
               => /\ flushLock'[i].eventsToSend = flushLock[i].eventsToSend
                  /\ requests'[InFlight(i)].sent = requests[InFlight(i)].sent]_vars

\* C26 witness: monitor() was just called while a request was in flight;
\* its event is the last of the queue and is not in the request.
C26_Witness ==
    /\ lastCall.op = "monitor"
    /\ lastCall.rejected = ""
    /\ instance # NULL
    /\ flushLock[instance].pc = "sending"
    /\ eventQueue[instance] # <<>>
    /\ Last(eventQueue[instance]).timestamp = clock
    /\ Last(eventQueue[instance]).event = lastCall.arg
    /\ clock \notin Timestamps(requests[InFlight(instance)].sent)
    /\ Len(requests[InFlight(instance)].sent) > 1

\* C27: no request holds more events than the batch size of its client.
C27_RequestWithinBatchSize ==
    \A k \in 1..Len(requests) :
        Len(requests[k].events) <= batchSize[requests[k].client]

\* C28: when a stop() call completes, the client it stopped is drained and
\* quiescent: its queue is empty, it has no timer pending and no request in
\* flight.
C28_StopLeavesClientDrained ==
    [][(microtasks # <<>> /\ Head(microtasks).task = "stop"
            /\ microtasks' = Tail(microtasks)) =>
          LET i == Head(microtasks).client
          IN  /\ eventQueue'[i] = <<>>
              /\ timers'[i] = 0
              /\ flushLock'[i].pc # "sending"
              /\ \A k \in 1..Len(requests') :
                    requests'[k].client = i => requests'[k].status # "inflight"]_vars

\* C29: a monitor() call, whether it is accepted, rejected or throws, never
\* creates, replaces or reconfigures the singleton: the handle, the number
\* of clients built and the credential and configuration of every client
\* are the same after the call as before.
C29_MonitorKeepsSingleton ==
    [][lastCall'.op = "monitor" =>
          /\ instance' = instance
          /\ created' = created
          /\ UNCHANGED <<options, apiKey, batchSize, retries>>]_vars

\* C29 witness: monitor() was called with no client installed, after a
\* client had been stopped, and threw not-initialized; there is still no
\* client.
C29_Witness ==
    /\ lastCall.op = "monitor"
    /\ lastCall.thrown = ERR_NOT_INITIALIZED
    /\ instance = NULL
    /\ created = 1
    /\ StopCount = 1

\* C30: once a request that held an event has succeeded, that event is in no
\* later request and in no client's queue.
C30_NoDeliveryAfterSuccess ==
    \A k \in 1..Len(requests) :
        requests[k].status = "ok" =>
            \A j \in 1..Len(requests[k].sent) :
                LET ts == requests[k].sent[j].timestamp IN
                /\ \A m \in (k + 1)..Len(requests) :
                       ts \notin Timestamps(requests[m].sent)
                /\ \A i \in Insts : ts \notin Timestamps(eventQueue[i])

\* C30 witness: a request that held a retried event succeeded, and the same
\* client made a later request, which failed and was put back.
C30_Witness ==
    \E k \in 1..Len(requests) : \E m \in (k + 1)..Len(requests) :
        /\ requests[k].status = "ok"
        /\ \E j \in 1..Len(requests[k].sent) : requests[k].sent[j].retryCount > 0
        /\ requests[m].client = requests[k].client
        /\ requests[m].status = "failed"
        /\ eventQueue[requests[m].client] # <<>>

\* Client i is still referenced by the program: it is the singleton, or a
\* timer, a flush, a held lock or a queued continuation of it is alive. A
\* client that is none of these is unreachable, and its queue with it.
Referenced(i) ==
    \/ instance = i
    \/ timers[i] > 0
    \/ flushLock[i].pc # "free"
    \/ queueLock[i].held # "free"
    \/ resumeMonitor[i] > 0
    \/ \E k \in 1..Len(microtasks) : microtasks[k].client = i

\* The places that hold the event of the monitor() call with timestamp t:
\* positions of live queues, positions of snapshots of flushes in progress,
\* requests that succeeded, requests that failed with its retries used up.
InLiveQueue(t) ==
    {<<i, j>> \in Insts \X (1..MAX_QUEUE_SIZE + DEFAULT_BATCH_SIZE) :
        /\ Referenced(i)
        /\ j <= Len(eventQueue[i])
        /\ eventQueue[i][j].timestamp = t}
InSnapshot(t) ==
    {<<i, j>> \in Insts \X (1..MAX_QUEUE_SIZE + DEFAULT_BATCH_SIZE) :
        /\ flushLock[i].pc \in {"swapped", "sending"}
        /\ j <= Len(flushLock[i].eventsToSend)
        /\ flushLock[i].eventsToSend[j].timestamp = t}
DeliveredIn(t) ==
    {k \in Attempts(t) : requests[k].status = "ok"}
DroppedIn(t) ==
    {k \in FailedAttempts(t) :
        \E j \in 1..Len(requests[k].sent) :
            /\ requests[k].sent[j].timestamp = t
            /\ requests[k].sent[j].retryCount >= retries[requests[k].client]}
Places(t) ==
    Cardinality(InLiveQueue(t)) + Cardinality(InSnapshot(t))
      + Cardinality(DeliveredIn(t)) + Cardinality(DroppedIn(t))

\* C31: every event monitor() accepted is in exactly one place: a live
\* queue, the snapshot of a flush in progress, a request that succeeded, or
\* a request that failed with the event's retries used up; and a step takes
\* no queued event out of all of them.
C31_AcceptedEventInOnePlace ==
    /\ [](\A t \in 1..MaxCalls : Accepted(t) => Places(t) = 1)
    /\ [][\A t \in 1..MaxCalls :
             Cardinality(InLiveQueue(t)) = 1 => Places(t)' = 1]_vars

\* No lock is held or waited for, and no continuation is waiting to run:
\* every monitor(), flushQueue() and stop() call made so far has completed,
\* but for a send still in flight.
LocksFree ==
    /\ microtasks = <<>>
    /\ stopResume = 0
    /\ \A i \in Insts :
          /\ queueLock[i] = FreeQueueLock
          /\ resumeMonitor[i] = 0
          /\ flushLock[i].pending = <<>>
          /\ flushLock[i].pc \in {"free", "sending"}

\* C32: with continuations run and every send completing one way or the
\* other, the locks do not deadlock: whatever calls were made, both locks
\* of every client are free again and every call has completed, on every
\* path, the empty-snapshot return and the send failure included.
C32_LocksReleased ==
    /\ []<>LocksFree
    /\ \A i \in Insts : []<>(flushLock[i] = FreeFlushLock)

\* C32 witness: both locks of a client are contended at once: a push waits
\* for the "queue" key and a flush waits for the "flush" key, while the
\* flush holding it has swapped out an empty snapshot.
C32_Witness ==
    \E i \in Insts :
        /\ queueLock[i].pending # <<>>
        /\ flushLock[i].pending # <<>>
        /\ flushLock[i].pc = "swapped"
        /\ flushLock[i].eventsToSend = <<>>

\* C33: after an initialize() call has returned without error, monitor()
\* does not throw the not-initialized error as long as no stop() call has
\* been started since: with s stop() calls started when initialize()
\* returned, no monitor() call throws it while that number is still s.
C33_InitializedUntilLaterStop ==
    \A s \in 0..MaxStops :
        []((lastCall.op = "initialize" /\ lastCall.thrown = "" /\ StopCount = s)
             => [](StopCount = s =>
                     ~(lastCall.op = "monitor"
                         /\ lastCall.thrown = ERR_NOT_INITIALIZED)))
====
